---- MODULE Spec2Model ----
(***************************************************************************)
(* Hybrid cultural-provenance classification pipeline.                     *)
(*                                                                         *)
(*   run_RBC_validation.py      reads the enriched dataset and the three   *)
(*                              golden tables, runs the rule cascade on    *)
(*                              every row and writes validation_rules.csv  *)
(*   apply_fallback_validation.py / apply_fallback_test.py                 *)
(*                              read that table and the raw text, join     *)
(*                              them, call the fallback model on the       *)
(*                              unresolved rows and write the hybrid table *)
(*                                                                         *)
(* Strings are sequences of one-character strings, so that str.lower,      *)
(* str.title and str.strip are computed and not assumed.  A missing value  *)
(* (pandas NaN, Python None in a pandas column) is the one-element         *)
(* sequence NaN, which no text can equal.                                  *)
(***************************************************************************)
EXTENDS Integers, Sequences, FiniteSets, TLC

VARIABLES
    pc,         \* position of the two scripts, run one after the other
    df,         \* run_RBC_validation.main: the dataset frame
    golden,     \* the three golden csv files as read by load_golden_rules
    maps,       \* instance_map, culture_map, heritage_map
    rules_csv,  \* results/validation_rules.csv
    hdf,        \* apply_fallback main: the merged frame
    calls,      \* the batches model.predict was called with, in order
    preds,      \* what the last model.predict call returned
    out_csv     \* the hybrid output csv

vars == <<pc, df, golden, maps, rules_csv, hdf, calls, preds, out_csv>>

(***************************************************************************)
(* Bounds of the model.                                                    *)
(***************************************************************************)
MaxRows == 2        \* rows of the entity dataset / of the rule table
MaxRawRows == 2     \* rows of the raw text csv
MaxListLen == 2     \* identifiers in one relationship list (cascade runs)

(***************************************************************************)
(* Text.                                                                   *)
(***************************************************************************)
NaN == <<"<NaN>">>
None == <<"<None>">>

UpperAlphabet == <<"A","B","C","D","E","F","G","H","I","J","K","L","M",
                   "N","O","P","Q","R","S","T","U","V","W","X","Y","Z">>
LowerAlphabet == <<"a","b","c","d","e","f","g","h","i","j","k","l","m",
                   "n","o","p","q","r","s","t","u","v","w","x","y","z">>

UpperLetters == {UpperAlphabet[i] : i \in DOMAIN UpperAlphabet}
LowerLetters == {LowerAlphabet[i] : i \in DOMAIN LowerAlphabet}
LowerOf ==
    [c \in UpperLetters |->
        LowerAlphabet[CHOOSE i \in DOMAIN UpperAlphabet : UpperAlphabet[i] = c]]
UpperOf ==
    [c \in LowerLetters |->
        UpperAlphabet[CHOOSE i \in DOMAIN LowerAlphabet : LowerAlphabet[i] = c]]

IsUpper(c) == c \in UpperLetters
IsLower(c) == c \in LowerLetters
IsCased(c) == IsUpper(c) \/ IsLower(c)
IsSpace(c) == c = " "

ToLower(c) == IF IsUpper(c) THEN LowerOf[c] ELSE c
ToUpper(c) == IF IsLower(c) THEN UpperOf[c] ELSE c

\* str.lower()
Lower(s) == [i \in DOMAIN s |-> ToLower(s[i])]

\* str.title(): a cased character is upper-cased when it follows an uncased
\* one (or starts the string) and lower-cased when it follows a cased one.
Title(s) ==
    [i \in DOMAIN s |->
        IF ~IsCased(s[i]) THEN s[i]
        ELSE IF i > 1 /\ IsCased(s[i - 1]) THEN ToLower(s[i])
        ELSE ToUpper(s[i])]

\* str.strip(): leading and trailing whitespace removed.
RECURSIVE LStrip(_)
LStrip(s) == IF s # <<>> /\ IsSpace(s[1]) THEN LStrip(Tail(s)) ELSE s
RECURSIVE RStrip(_)
RStrip(s) ==
    IF s # <<>> /\ IsSpace(s[Len(s)]) THEN RStrip(SubSeq(s, 1, Len(s) - 1)) ELSE s
Strip(s) == RStrip(LStrip(s))

\* Series.fillna('')
FillNa(v, w) == IF v = NaN THEN w ELSE v
\* Series.str.title() and Series.str.lower() leave a missing value missing.
StrTitle(v) == IF v = NaN THEN NaN ELSE Title(v)
StrLower(v) == IF v = NaN THEN NaN ELSE Lower(v)

\* DataFrame.to_csv writes a missing value as an empty field; pd.read_csv
\* reads an empty field as a missing value.
ToCsvCell(v) == IF v = NaN THEN <<>> ELSE v
ReadCsvCell(s) == IF s = <<>> THEN NaN ELSE s

(***************************************************************************)
(* Literals of the program.                                                *)
(***************************************************************************)
CulturalAgnostic ==
    <<"C","u","l","t","u","r","a","l"," ","A","g","n","o","s","t","i","c">>
cultural_agnostic ==
    <<"c","u","l","t","u","r","a","l"," ","a","g","n","o","s","t","i","c">>
TagQID == <<"Q","I","D">>
TagAgnostic == <<"A","g","n","o","s","t","i","c">>
TagML == <<"M","L">>

\* list_fields of run_RBC_validation.main
list_fields ==
    <<"country_of_origin", "country", "located_in",
      "part_of_culture", "instance_of", "heritage_status">>

(***************************************************************************)
(* Inputs of run_RBC_validation.py.                                        *)
(***************************************************************************)
Digits == <<"1","2","3","4","5","6","7","8","9">>
\* the qid column: one distinct identifier per dataset row
Qid(i) == <<"Q", Digits[i]>>

q1 == <<"q","1">>
q2 == <<"q","2">>
Q2 == <<"Q","2">>

cultural_exclusive ==
    <<"c","u","l","t","u","r","a","l"," ","e","x","c","l","u","s","i","v","e">>
cultural_representative ==
    <<"c","u","l","t","u","r","a","l"," ",
      "r","e","p","r","e","s","e","n","t","a","t","i","v","e">>

\* A cell of a relationship column as pd.read_csv delivers it: a missing
\* value (not a str), or a str that is or is not a Python literal.
NaNCell == [isstr |-> FALSE, literal |-> FALSE, val |-> <<>>]
BadCell == [isstr |-> TRUE, literal |-> FALSE, val |-> <<>>]
Lit(list) == [isstr |-> TRUE, literal |-> TRUE, val |-> list]

\* identifiers the relationship lists are drawn from
ListIds == {q1, Q2}
Lists == UNION {[1..n -> ListIds] : n \in 0..MaxListLen}

\* a dataset row; the three columns the cascade never reads hold `other`
DatasetRow(i, heritage, culture, instance, other) ==
    [c \in {"qid"} \cup {list_fields[k] : k \in DOMAIN list_fields} |->
        CASE c = "qid" -> Qid(i)
          [] c = "heritage_status" -> heritage
          [] c = "part_of_culture" -> culture
          [] c = "instance_of" -> instance
          [] OTHER -> other]

\* datasets of the whole-pipeline runs: csv cells, a few per column
HeritageCells == {NaNCell, BadCell, Lit(<<>>)}
CultureCells == {Lit(<<>>)}
InstanceCells == {Lit(<<>>), Lit(<<q1>>), Lit(<<Q2>>)}
PipelineRows(i) ==
    {DatasetRow(i, h, c, n, Lit(<<>>)) :
        h \in HeritageCells, c \in CultureCells, n \in InstanceCells}
PipelineDatasets ==
    UNION {{d \in [1..n -> UNION {PipelineRows(i) : i \in 1..n}] :
                \A i \in 1..n : d[i] \in PipelineRows(i)} : n \in 1..MaxRows}

\* datasets of the cascade runs, already parsed: one row, every list up to
\* MaxListLen identifiers
CascadeDatasets ==
    {<<DatasetRow(1, h, c, n, <<>>)>> : h \in Lists, c \in Lists, n \in Lists}

\* golden csv files: rows of (qid, label); an empty label field reads as NaN
GoldenRow(q, l) == [qid |-> q, label |-> l]
GoldenFiles ==
    { <<>>,
      <<GoldenRow(q1, cultural_exclusive), GoldenRow(q2, cultural_representative)>>,
      <<GoldenRow(Q2, cultural_representative)>>,
      <<GoldenRow(q1, NaN), GoldenRow(q2, cultural_agnostic)>> }

NoFile == [exists |-> FALSE, rows |-> <<>>]
File(rows) == [exists |-> TRUE, rows |-> rows]
NoMaps == [instance |-> <<>>, culture |-> <<>>, heritage |-> <<>>]

(***************************************************************************)
(* run_RBC_validation.py                                                   *)
(***************************************************************************)
\* DataFrame.set_index('qid')['label'].to_dict(): the last row of a key wins
ToDict(rows) ==
    [k \in {rows[i].qid : i \in DOMAIN rows} |->
        LET last == CHOOSE i \in DOMAIN rows :
                        /\ rows[i].qid = k
                        /\ \A j \in DOMAIN rows : rows[j].qid = k => j <= i
        IN  rows[last].label]

load_golden_rules(instance_file, culture_file, heritage_file) ==
    [instance |-> ToDict(instance_file),
     culture |-> ToDict(culture_file),
     heritage |-> ToDict(heritage_file)]

\* dict.get(key): None when the key is absent
DictGet(map, k) == IF k \in DOMAIN map THEN map[k] ELSE None
\* truth value of a label: None and '' are false, a str or NaN is true
Truthy(v) == v # None /\ v # <<>>

\* one `for qid in row.get(field, []): ...` loop, from position i on
RECURSIVE first_label(_, _, _)
first_label(list, map, i) ==
    IF i > Len(list) THEN None
    ELSE LET label == DictGet(map, Lower(list[i]))
         IN  IF Truthy(label) THEN label ELSE first_label(list, map, i + 1)

rule_based_classifier_instance_before_culture(row, instance_map, culture_map, heritage_map) ==
    LET h == first_label(row["heritage_status"], heritage_map, 1)
        c == first_label(row["part_of_culture"], culture_map, 1)
        n == first_label(row["instance_of"], instance_map, 1)
    IN  IF h # None THEN <<h, TagQID>>
        ELSE IF n # None THEN <<n, TagQID>>
        ELSE IF c # None THEN <<c, TagQID>>
        ELSE <<CulturalAgnostic, TagAgnostic>>

rule_based_classifier_unresolved_as_rule(row, instance_map, culture_map, heritage_map) ==
    LET h == first_label(row["heritage_status"], heritage_map, 1)
        c == first_label(row["part_of_culture"], culture_map, 1)
        n == first_label(row["instance_of"], instance_map, 1)
    IN  IF h # None THEN <<h, TagQID>>
        ELSE IF c # None THEN <<c, TagQID>>
        ELSE IF n # None THEN <<n, TagQID>>
        ELSE <<CulturalAgnostic, TagQID>>

rule_based_classifier(row, instance_map, culture_map, heritage_map) ==
    LET h == first_label(row["heritage_status"], heritage_map, 1)
        c == first_label(row["part_of_culture"], culture_map, 1)
        n == first_label(row["instance_of"], instance_map, 1)
    IN  IF h # None THEN <<h, TagQID>>
        ELSE IF c # None THEN <<c, TagQID>>
        ELSE IF n # None THEN <<n, TagQID>>
        ELSE <<CulturalAgnostic, TagAgnostic>>

IsListField(c) == \E k \in DOMAIN list_fields : list_fields[k] = c

\* ast.literal_eval raises on a str that is no literal
LiteralEvalRaises(frame) ==
    \E i \in DOMAIN frame : \E k \in DOMAIN list_fields :
        LET x == frame[i][list_fields[k]] IN x.isstr /\ ~x.literal

\* lambda x: ast.literal_eval(x) if isinstance(x, str) else []
ParseCell(x) == IF x.isstr THEN x.val ELSE <<>>

WithColumns(row, prediction, source) ==
    [c \in DOMAIN row \cup {"prediction", "source"} |->
        CASE c = "prediction" -> prediction
          [] c = "source" -> source
          [] OTHER -> row[c]]

\* df = pd.read_csv(args.input, dtype={'qid': str})
ReadDataset ==
    /\ pc = "rbc_start"
    /\ \E d \in PipelineDatasets : df' = d
    /\ pc' = "rbc_read"
    /\ UNCHANGED <<golden, maps, rules_csv, hdf, calls, preds, out_csv>>

\* the loop over list_fields; an exception ends the script
ParseLists ==
    /\ pc = "rbc_read"
    /\ IF LiteralEvalRaises(df)
       THEN pc' = "rbc_failed" /\ df' = df
       ELSE /\ pc' = "rbc_parsed"
            /\ df' = [i \in DOMAIN df |->
                        [c \in DOMAIN df[i] |->
                            IF IsListField(c) THEN ParseCell(df[i][c])
                            ELSE df[i][c]]]
    /\ UNCHANGED <<golden, maps, rules_csv, hdf, calls, preds, out_csv>>

LoadGoldenRules ==
    /\ pc = "rbc_parsed"
    /\ \E gi \in GoldenFiles, gc \in GoldenFiles, gh \in GoldenFiles :
        /\ golden' = [instance |-> gi, culture |-> gc, heritage |-> gh]
        /\ maps' = load_golden_rules(gi, gc, gh)
    /\ pc' = "rbc_loaded"
    /\ UNCHANGED <<df, rules_csv, hdf, calls, preds, out_csv>>

\* df[['prediction', 'source']] = df.progress_apply(rule_based_classifier ...)
Classify ==
    /\ pc = "rbc_loaded"
    /\ df' = [i \in DOMAIN df |->
                LET r == rule_based_classifier(
                             df[i], maps.instance, maps.culture, maps.heritage)
                IN  WithColumns(df[i], r[1], r[2])]
    /\ pc' = "rbc_classified"
    /\ UNCHANGED <<golden, maps, rules_csv, hdf, calls, preds, out_csv>>

\* df['prediction'] = df['prediction'].str.title(); a column in which every
\* value is missing is a float column, and its .str raises AttributeError
TitleCase ==
    /\ pc = "rbc_classified"
    /\ IF \A i \in DOMAIN df : df[i]["prediction"] = NaN
       THEN pc' = "rbc_failed" /\ df' = df
       ELSE /\ pc' = "rbc_titled"
            /\ df' = [i \in DOMAIN df |->
                        [df[i] EXCEPT !["prediction"] = StrTitle(@)]]
    /\ UNCHANGED <<golden, maps, rules_csv, hdf, calls, preds, out_csv>>

\* df[['qid', 'label', 'prediction', 'source']].to_csv(output_file); the
\* script ends and its memory is gone; the second script starts
WriteRules ==
    /\ pc = "rbc_titled"
    /\ rules_csv' = File([i \in DOMAIN df |->
                            [qid |-> df[i]["qid"],
                             prediction |-> ToCsvCell(df[i]["prediction"]),
                             source |-> ToCsvCell(df[i]["source"])]])
    /\ df' = <<>>
    /\ golden' = NoMaps
    /\ maps' = NoMaps
    /\ pc' = "fb_start"
    /\ UNCHANGED <<hdf, calls, preds, out_csv>>

(***************************************************************************)
(* Inputs of apply_fallback_validation.py / apply_fallback_test.py.        *)
(***************************************************************************)
Diwali == <<"D","i","w","a","l","i">>
festival == <<"f","e","s","t","i","v","a","l">>

\* the item column of the raw csv: an entity URL ending in the identifier
Item(i) == <<"e", "/">> \o Qid(i)
\* (name, description) of a raw row
RawTexts == {<<Diwali, festival>>, <<NaN, festival>>, <<<<" ">>, NaN>>}
RawRows ==
    {[item |-> Item(i), name |-> t[1], description |-> t[2]] :
        i \in 1..MaxRows, t \in RawTexts}
RawCsvs == UNION {[1..n -> RawRows] : n \in 0..MaxRawRows}

\* what model.predict may do with a batch of n texts: raise, or return a
\* sequence of labels, of the right length or not, with None entries or not
ModelLabels == {cultural_exclusive, cultural_representative, NaN}
ModelOutcomes(n) ==
    {[raised |-> TRUE, out |-> <<>>]}
    \cup {[raised |-> FALSE, out |-> o] : o \in [1..n -> ModelLabels]}
    \cup {[raised |-> FALSE, out |-> [k \in 1..m |-> cultural_exclusive]] :
            m \in {n - 1, n + 1}}
NoPreds == [called |-> FALSE, raised |-> FALSE, out |-> <<>>]

(***************************************************************************)
(* apply_fallback_validation.py / apply_fallback_test.py                   *)
(***************************************************************************)
IsDigit(c) == \E i \in DOMAIN Digits : Digits[i] = c \/ c = "0"

\* Series.str.extract(r'(Q\d+)'): the first Q followed by digits, with all
\* the digits that follow; a missing value when there is none
ExtractQid(s) ==
    LET starts == {i \in DOMAIN s : s[i] = "Q" /\ i < Len(s) /\ IsDigit(s[i + 1])}
    IN  IF starts = {} THEN NaN
        ELSE LET lo == CHOOSE i \in starts : \A j \in starts : i <= j
                 hi == CHOOSE h \in (lo + 1)..Len(s) :
                           /\ \A j \in (lo + 1)..h : IsDigit(s[j])
                           /\ (h = Len(s) \/ ~IsDigit(s[h + 1]))
             IN  SubSeq(s, lo, hi)

load_raw_text(csv) ==
    [j \in DOMAIN csv |->
        [qid |-> ExtractQid(csv[j].item),
         name |-> csv[j].name,
         description |-> csv[j].description]]

\* pd.read_csv(args.input, dtype={'qid': str})
ReadRules(csv) ==
    [i \in DOMAIN csv |->
        [qid |-> csv[i].qid,
         prediction |-> ReadCsvCell(csv[i].prediction),
         source |-> ReadCsvCell(csv[i].source)]]

\* (name.fillna('') + ' ' + description.fillna('')).str.strip()
JoinText(name, description) ==
    Strip(FillNa(name, <<>>) \o <<" ">> \o FillNa(description, <<>>))

Joined(p, name, description) ==
    [qid |-> p.qid, prediction |-> p.prediction, source |-> p.source,
     name |-> name, description |-> description,
     text |-> JoinText(name, description)]

\* the rows one left row gives in preds.merge(raw, on='qid', how='left')
JoinRow(p, raw) ==
    LET hits == SelectSeq(raw, LAMBDA r : r.qid = p.qid)
    IN  IF hits = <<>> THEN <<Joined(p, NaN, NaN)>>
        ELSE [k \in DOMAIN hits |-> Joined(p, hits[k].name, hits[k].description)]

RECURSIVE merge_from(_, _, _)
merge_from(prd, raw, i) ==
    IF i > Len(prd) THEN <<>>
    ELSE JoinRow(prd[i], raw) \o merge_from(prd, raw, i + 1)

merge_predictions_with_text(prd, raw) == merge_from(prd, raw, 1)

fallback_mask_any_text(frame) ==
    {i \in DOMAIN frame :
        Lower(FillNa(frame[i].prediction, <<>>)) = cultural_agnostic}

\* mask: the rows the fallback model is asked about
fallback_mask(frame) ==
    {i \in DOMAIN frame :
        /\ Lower(FillNa(frame[i].prediction, <<>>)) = cultural_agnostic
        /\ Len(frame[i].text) > 0}

\* the k-th member of a set of row positions, in row order
Nth(mask, k) == CHOOSE i \in mask : Cardinality({j \in mask : j <= i}) = k
Rank(mask, i) == Cardinality({j \in mask : j <= i})

Batch_of_every_row(frame, mask) == [k \in DOMAIN frame |-> frame[k].text]

\* df.loc[mask, 'text']
Batch(frame, mask) == [k \in 1..Cardinality(mask) |-> frame[Nth(mask, k)].text]

fallback_series_untitled(out) == out

\* pd.Series(preds, index=df.loc[mask].index).str.title()
fallback_series(out) == [k \in DOMAIN out |-> StrTitle(out[k])]

\* the frame after the assignments under `if mask.any()` and the fillna
Assigned(frame, mask, out) ==
    [i \in DOMAIN frame |->
        LET r == IF i \in mask
                 THEN [frame[i] EXCEPT
                          !.prediction = fallback_series(out)[Rank(mask, i)],
                          !.source = TagML]
                 ELSE frame[i]
        IN  [r EXCEPT !.source = FillNa(@, TagQID)]]

\* preds = pd.read_csv(args.input); raw = load_raw_text(args.raw);
\* df = merge_predictions_with_text(preds, raw)
LoadAndMerge ==
    /\ pc = "fb_start"
    /\ \E csv \in RawCsvs :
        hdf' = merge_predictions_with_text(
                   ReadRules(rules_csv.rows), load_raw_text(csv))
    /\ pc' = "fb_merged"
    /\ UNCHANGED <<df, golden, maps, rules_csv, calls, preds, out_csv>>

\* apply_ml_fallback(df, model); an exception of model.predict, or of
\* pd.Series on a result of the wrong length, ends the script
ApplyFallback ==
    /\ pc = "fb_merged"
    /\ LET mask == fallback_mask(hdf)
       IN  IF mask = {}
           THEN /\ hdf' = Assigned(hdf, mask, <<>>)
                /\ pc' = "fb_applied"
                /\ UNCHANGED <<calls, preds>>
           ELSE \E o \in ModelOutcomes(Cardinality(mask)) :
                /\ calls' = Append(calls, Batch(hdf, mask))
                /\ preds' = [called |-> TRUE, raised |-> o.raised, out |-> o.out]
                /\ IF o.raised \/ Len(o.out) # Cardinality(mask)
                   THEN pc' = "fb_failed" /\ hdf' = hdf
                   ELSE pc' = "fb_applied" /\ hdf' = Assigned(hdf, mask, o.out)
    /\ UNCHANGED <<df, golden, maps, rules_csv, out_csv>>

\* df[['qid', 'label', 'prediction', 'source']].to_csv(args.output)
WriteHybrid ==
    /\ pc = "fb_applied"
    /\ out_csv' = File([i \in DOMAIN hdf |->
                          [qid |-> hdf[i].qid,
                           prediction |-> ToCsvCell(hdf[i].prediction),
                           source |-> ToCsvCell(hdf[i].source)]])
    /\ pc' = "done"
    /\ UNCHANGED <<df, golden, maps, rules_csv, hdf, calls, preds>>

(***************************************************************************)
(* Specifications.                                                         *)
(***************************************************************************)
Fresh ==
    /\ df = <<>>
    /\ golden = NoMaps
    /\ maps = NoMaps
    /\ rules_csv = NoFile
    /\ hdf = <<>>
    /\ calls = <<>>
    /\ preds = NoPreds
    /\ out_csv = NoFile

\* Both scripts, the second on the table the first wrote.
Init ==
    /\ pc = "rbc_start"
    /\ Fresh

Next ==
    \/ ReadDataset
    \/ ParseLists
    \/ LoadGoldenRules
    \/ Classify
    \/ TitleCase
    \/ WriteRules
    \/ LoadAndMerge
    \/ ApplyFallback
    \/ WriteHybrid

Spec == Init /\ [][Next]_vars

\* The rule cascade alone, on one parsed row with lists of every shape.
InitCascade ==
    /\ pc = "rbc_parsed"
    /\ df \in CascadeDatasets
    /\ golden = NoMaps
    /\ maps = NoMaps
    /\ rules_csv = NoFile
    /\ hdf = <<>>
    /\ calls = <<>>
    /\ preds = NoPreds
    /\ out_csv = NoFile

NextCascade ==
    \/ LoadGoldenRules
    \/ Classify

SpecCascade == InitCascade /\ [][NextCascade]_vars

\* The fallback script alone, on any rule table it may be handed: a
\* prediction in any casing, a source field that may be empty.
GivenRules ==
    UNION {{t \in [1..n -> [qid : {Qid(i) : i \in 1..n},
                            prediction : {cultural_agnostic, Title(cultural_exclusive)},
                            source : {<<>>, TagAgnostic}]] :
                \A i \in 1..n : t[i].qid = Qid(i)} : n \in 1..MaxRows}

InitFallback ==
    /\ pc = "fb_start"
    /\ df = <<>>
    /\ golden = NoMaps
    /\ maps = NoMaps
    /\ rules_csv \in {File(t) : t \in GivenRules}
    /\ hdf = <<>>
    /\ calls = <<>>
    /\ preds = NoPreds
    /\ out_csv = NoFile

NextFallback ==
    \/ LoadAndMerge
    \/ ApplyFallback
    \/ WriteHybrid

SpecFallback == InitFallback /\ [][NextFallback]_vars

(***************************************************************************)
(* Properties.                                                             *)
(***************************************************************************)
\* the row of the rule table, as the fallback script reads it, for an id
RuleRow(q) ==
    LET i == CHOOSE i \in DOMAIN rules_csv.rows : rules_csv.rows[i].qid = q
    IN  ReadRules(<<rules_csv.rows[i]>>)[1]

\* positions of a list whose identifier the table knows
Hits(list, map) == {k \in DOMAIN list : Lower(list[k]) \in DOMAIN map}
FirstHit(list, map) ==
    LET k == CHOOSE k \in Hits(list, map) : \A m \in Hits(list, map) : k <= m
    IN  map[Lower(list[k])]

\* the rows eligible for the fallback, by the rule table and the joined text
Eligible(j) ==
    /\ Lower(FillNa(RuleRow(hdf[j].qid).prediction, <<>>)) = cultural_agnostic
    /\ JoinText(hdf[j].name, hdf[j].description) # <<>>
EligibleRows == {j \in DOMAIN hdf : Eligible(j)}

Merged == pc \in {"fb_applied", "done"}

\* C1: the cascade returns, with tag 'QID', the label of the first identifier
\* the table knows, scanning heritage_status, then part_of_culture, then
\* instance_of, each in list order: heritage wins over culture and instance,
\* culture wins over instance.
C1_CascadePriority ==
    pc = "rbc_classified" =>
        \A i \in DOMAIN df :
            LET row == df[i]
                h == Hits(row["heritage_status"], maps.heritage)
                c == Hits(row["part_of_culture"], maps.culture)
                n == Hits(row["instance_of"], maps.instance)
                got == <<row["prediction"], row["source"]>>
            IN  /\ h # {} =>
                    got = <<FirstHit(row["heritage_status"], maps.heritage), TagQID>>
                /\ (h = {} /\ c # {}) =>
                    got = <<FirstHit(row["part_of_culture"], maps.culture), TagQID>>
                /\ (h = {} /\ c = {} /\ n # {}) =>
                    got = <<FirstHit(row["instance_of"], maps.instance), TagQID>>

\* a row with two heritage hits of different labels, and culture and
\* instance hits of yet another label
C1_Witness ==
    /\ pc = "rbc_classified"
    /\ \E i \in DOMAIN df :
        LET row == df[i]
            hl == row["heritage_status"]
        IN  /\ Cardinality(Hits(hl, maps.heritage)) = 2
            /\ maps.heritage[Lower(hl[1])] # maps.heritage[Lower(hl[2])]
            /\ Hits(row["part_of_culture"], maps.culture) # {}
            /\ Hits(row["instance_of"], maps.instance) # {}
            /\ FirstHit(row["part_of_culture"], maps.culture) # row["prediction"]
            /\ FirstHit(row["instance_of"], maps.instance) # row["prediction"]
            /\ row["prediction"] = maps.heritage[Lower(hl[1])]

\* C2: a row the cascade tagged 'QID' has, after the fallback merge, the
\* prediction and the tag the rule table gave it.
C2_RuleHitsUntouched ==
    Merged =>
        \A j \in DOMAIN hdf :
            LET p == RuleRow(hdf[j].qid)
            IN  p.source = TagQID =>
                    /\ hdf[j].prediction = p.prediction
                    /\ hdf[j].source = TagQID

\* C3: a row that reaches the merge with prediction 'Cultural Agnostic' in
\* any casing and a non-empty joined text ends with tag 'ML' and with the
\* title-cased label the model returned at that row's place in the batch,
\* where the batch holds that row's text.
C3_FallbackAligned ==
    Merged =>
        LET eligible == EligibleRows
        IN  \A j \in eligible :
                LET k == Cardinality({m \in eligible : m <= j})
                IN  /\ hdf[j].source = TagML
                    /\ preds.called
                    /\ calls[Len(calls)][k]
                           = JoinText(hdf[j].name, hdf[j].description)
                    /\ hdf[j].prediction = StrTitle(preds.out[k])

\* two eligible rows for which the model returned different labels, next to
\* a row that was not eligible
C3_Witness ==
    /\ pc = "done"
    /\ Cardinality(EligibleRows) = 2
    /\ EligibleRows # DOMAIN hdf
    /\ preds.out[1] # preds.out[2]
    /\ NaN \notin {preds.out[1], preds.out[2]}

\* C4: a row that is not eligible (its prediction is not 'Cultural
\* Agnostic', or its joined text is empty, also for want of a text row)
\* keeps the prediction and the tag the rule runner gave it; an unresolved
\* row with empty text ends as 'Cultural Agnostic' / 'Agnostic'.
C4_IneligibleUnchanged ==
    Merged =>
        \A j \in DOMAIN hdf \ EligibleRows :
            LET p == RuleRow(hdf[j].qid)
            IN  /\ hdf[j].prediction = p.prediction
                /\ hdf[j].source = p.source
                /\ p.source = TagAgnostic =>
                       /\ hdf[j].prediction = CulturalAgnostic
                       /\ hdf[j].source = TagAgnostic

\* the model was called for one row of an unresolved entity while another
\* row of it had a blank name, and a rule hit with another label had no
\* text row at all
C4_Witness ==
    /\ pc = "done"
    /\ calls # <<>>
    /\ \E j \in DOMAIN hdf \ EligibleRows :
        /\ RuleRow(hdf[j].qid).source = TagAgnostic
        /\ hdf[j].name = <<" ">>
    /\ \E j \in DOMAIN hdf \ EligibleRows :
        /\ RuleRow(hdf[j].qid).source = TagQID
        /\ hdf[j].prediction # CulturalAgnostic
        /\ hdf[j].name = NaN

\* C5: when the pipeline has completed, every row of the output has a
\* prediction that is neither missing nor empty, and one of the tags.
C5_PredictionPresent ==
    pc = "done" =>
        \A i \in DOMAIN out_csv.rows :
            /\ out_csv.rows[i].prediction # <<>>
            /\ out_csv.rows[i].source \in {TagQID, TagML, TagAgnostic}

\* C6: the output table has the rows of the rule table, one for one and in
\* the same order of ids.
C6_OneRowPerEntity ==
    pc = "done" =>
        [i \in DOMAIN out_csv.rows |-> out_csv.rows[i].qid]
            = [i \in DOMAIN rules_csv.rows |-> rules_csv.rows[i].qid]

\* C7: when the model raised, or returned a batch of the wrong length or
\* with a null entry, no output table is written.
C7_MalformedBatchFatal ==
    (/\ preds.called
     /\ \/ preds.raised
        \/ Len(preds.out) # Len(calls[Len(calls)])
        \/ \E k \in DOMAIN preds.out : preds.out[k] = NaN)
    => ~out_csv.exists

\* C8: a row whose source is still missing after the fallback step ends
\* with a tag that is none of 'QID', 'ML', 'Agnostic'.
C8_CatchAllDistinct ==
    Merged =>
        \A j \in DOMAIN hdf \ EligibleRows :
            RuleRow(hdf[j].qid).source = NaN =>
                hdf[j].source \notin {TagQID, TagML, TagAgnostic}

\* C9: a relationship cell that is no literal does not end the rule
\* runner: no run fails on such a cell.
C9_MalformedCellNonFatal ==
    ~(pc = "rbc_failed" /\ LiteralEvalRaises(df))

\* C10: an identifier of a relationship list that equals a key of the
\* golden file of its kind, letter case ignored, is found by the lookup.
C10_CaseInsensitiveLookup ==
    pc \in {"rbc_loaded", "rbc_classified"} =>
        \A i \in DOMAIN df :
            \A f \in {<<"heritage_status", "heritage">>,
                      <<"part_of_culture", "culture">>,
                      <<"instance_of", "instance">>} :
                \A k \in DOMAIN df[i][f[1]] :
                    \A g \in DOMAIN golden[f[2]] :
                        Lower(df[i][f[1]][k]) = Lower(golden[f[2]][g].qid) =>
                            Truthy(DictGet(maps[f[2]], Lower(df[i][f[1]][k])))

\* C11: a row none of whose three lists holds an identifier its table
\* knows, whether the lists are empty or not, gets 'Cultural Agnostic' with
\* tag 'Agnostic'.
C11_NoMatchIsAgnostic ==
    pc = "rbc_classified" =>
        \A i \in DOMAIN df :
            LET row == df[i]
            IN  (/\ Hits(row["heritage_status"], maps.heritage) = {}
                 /\ Hits(row["part_of_culture"], maps.culture) = {}
                 /\ Hits(row["instance_of"], maps.instance) = {})
                => /\ row["prediction"] = CulturalAgnostic
                   /\ row["source"] = TagAgnostic

\* a row without a hit although one list is empty, another is not, and the
\* tables are not all empty
C11_Witness ==
    /\ pc = "rbc_classified"
    /\ \E i \in DOMAIN df :
        LET row == df[i]
        IN  /\ Hits(row["heritage_status"], maps.heritage) = {}
            /\ Hits(row["part_of_culture"], maps.culture) = {}
            /\ Hits(row["instance_of"], maps.instance) = {}
            /\ row["heritage_status"] # <<>>
            /\ row["part_of_culture"] = <<>>
            /\ Len(row["instance_of"]) = 2
            /\ maps.heritage # <<>>
            /\ maps.instance # <<>>
            /\ row["source"] = TagAgnostic

\* the texts of a set of rows, in the order of the merged table
TextsOf(rows) ==
    [k \in 1..Cardinality(rows) |->
        LET j == CHOOSE j \in rows : Cardinality({m \in rows : m <= j}) = k
        IN  JoinText(hdf[j].name, hdf[j].description)]

\* C12: in a run of the fallback merge model.predict is called at most
\* once; once apply_ml_fallback has run, it was called exactly when some row
\* is eligible, and then with the texts of the eligible rows in table order;
\* before that it was not called.
C12_SingleBatchCall ==
    /\ Len(calls) <= 1
    /\ IF pc \in {"fb_applied", "fb_failed", "done"}
       THEN LET eligible == EligibleRows
            IN  calls = IF eligible = {} THEN <<>> ELSE <<TextsOf(eligible)>>
       ELSE calls = <<>>

\* one call with two different texts, in table order, beside a row that was
\* not eligible
C12_Witness ==
    /\ pc = "done"
    /\ Len(calls) = 1
    /\ Len(calls[1]) = 2
    /\ calls[1][1] # calls[1][2]
    /\ Cardinality(EligibleRows) < Len(hdf)

\* every unresolved row has empty text and the model was never called
C12_WitnessNoCall ==
    /\ pc = "done"
    /\ calls = <<>>
    /\ \E j \in DOMAIN hdf :
        /\ Lower(FillNa(RuleRow(hdf[j].qid).prediction, <<>>)) = cultural_agnostic
        /\ hdf[j].name = <<" ">>

====
